---- MODULE Spec2Model ----
(***************************************************************************)
(* Concentrated-liquidity range and allocation calculator of               *)
(* create_scalar_market (src/src/utils/dex.ts).                            *)
(*                                                                         *)
(* The calculator is a set of pure functions.  Each is an operator here,   *)
(* and a call is one step of a small state machine: from "idle" a call     *)
(* picks its arguments, records them in `call` and the outcome (returned   *)
(* amounts, or a throw) in `ret`; Return goes back to "idle".              *)
(*                                                                         *)
(* Arithmetic of the Uniswap V3 SDK (Q64.96 fixed point over uint256) is   *)
(* kept formula by formula but at a reduced width: Q96 stands for 2^96,    *)
(* MaxUint256 for 2^256 - 1 and getSqrtRatioAtTick is a strictly           *)
(* increasing table over the ticks the model uses.  Ticks, MIN_TICK,       *)
(* MAX_TICK, fee tiers and tick spacings are the real values.              *)
(***************************************************************************)
EXTENDS Integers, Sequences, FiniteSets, TLC

VARIABLES pc, call, ret

vars == <<pc, call, ret>>

(***************************************************************************)
(* Bounds of the model.                                                    *)
(***************************************************************************)
\* token amounts (budget, supplies) range over 0..MaxAmount
MaxAmount == 4

Amounts == 0..MaxAmount

(***************************************************************************)
(* Protocol constants (TickMath.MIN_TICK / MAX_TICK, dex.ts:69-70).        *)
(***************************************************************************)
MIN_TICK == -887272

MAX_TICK == 887272

\* 2^96 of dex.ts:6, at reduced width (2^4)
Q96 == 16

\* the SDK's MaxUint256 placeholder amount of Position.fromAmount0/1, at
\* reduced width (2^18 - 1); it dominates every amount in Amounts exactly as
\* 2^256 - 1 dominates realistic token amounts
MaxUint256 == 262143

\* ticks a pool can be at; all have an entry in getSqrtRatioAtTick
PoolTicks == {MIN_TICK, -120, -60, 0, 60, 120}

\* tick range ends passed to the allocators: valid ones, and one below
\* MIN_TICK / one above MAX_TICK (what calculateTickBounds yields at spacing 60
\* after aligning a clamped tick)
RangeTicks == {-887280, MIN_TICK, -120, -60, 0, 60, 120, MAX_TICK, 887280}

\* fee tiers passed to the allocators: three known ones and an unknown one
FeeTiers == {100, 3000, 10000, 250}

(***************************************************************************)
(* Uniswap V3 SDK as used by dex.ts                                        *)
(***************************************************************************)
\* TickMath.getSqrtRatioAtTick: sqrt(1.0001^tick) * Q96, strictly increasing.
\* Reduced ladder: one entry per tick of PoolTicks and MAX_TICK.
getSqrtRatioAtTick(tick) ==
  CASE tick = MIN_TICK -> 1
    [] tick = -120     -> 10
    [] tick = -60      -> 13
    [] tick = 0        -> 16
    [] tick = 60       -> 20
    [] tick = 120      -> 25
    [] tick = MAX_TICK -> 64

\* FullMath.mulDivRoundingUp
mulDivRoundingUp(a, b, denominator) ==
  LET product == a * b
  IN  (product \div denominator) + (IF product % denominator # 0 THEN 1 ELSE 0)

\* maxLiquidityForAmount0Precise(sqrtRatioAX96, sqrtRatioBX96, amount0)
maxLiquidityForAmount0Precise(sqrtA, sqrtB, amount0) ==
  LET lo == IF sqrtA > sqrtB THEN sqrtB ELSE sqrtA
      hi == IF sqrtA > sqrtB THEN sqrtA ELSE sqrtB
  IN  (amount0 * lo * hi) \div (Q96 * (hi - lo))

\* maxLiquidityForAmount1(sqrtRatioAX96, sqrtRatioBX96, amount1)
maxLiquidityForAmount1(sqrtA, sqrtB, amount1) ==
  LET lo == IF sqrtA > sqrtB THEN sqrtB ELSE sqrtA
      hi == IF sqrtA > sqrtB THEN sqrtA ELSE sqrtB
  IN  (amount1 * Q96) \div (hi - lo)

\* maxLiquidityForAmounts(sqrtRatioCurrentX96, A, B, amount0, amount1, true)
maxLiquidityForAmounts(sqrtCur, sqrtA, sqrtB, amount0, amount1) ==
  IF sqrtCur <= sqrtA
    THEN maxLiquidityForAmount0Precise(sqrtA, sqrtB, amount0)
  ELSE IF sqrtCur < sqrtB
    THEN LET liquidity0 == maxLiquidityForAmount0Precise(sqrtCur, sqrtB, amount0)
             liquidity1 == maxLiquidityForAmount1(sqrtA, sqrtCur, amount1)
         IN  IF liquidity0 < liquidity1 THEN liquidity0 ELSE liquidity1
  ELSE maxLiquidityForAmount1(sqrtA, sqrtB, amount1)

\* SqrtPriceMath.getAmount0Delta(A, B, liquidity, roundUp = true)
getAmount0Delta(sqrtA, sqrtB, liquidity) ==
  LET lo == IF sqrtA > sqrtB THEN sqrtB ELSE sqrtA
      hi == IF sqrtA > sqrtB THEN sqrtA ELSE sqrtB
  IN  mulDivRoundingUp(mulDivRoundingUp(liquidity * Q96, hi - lo, hi), 1, lo)

\* SqrtPriceMath.getAmount1Delta(A, B, liquidity, roundUp = true)
getAmount1Delta(sqrtA, sqrtB, liquidity) ==
  LET lo == IF sqrtA > sqrtB THEN sqrtB ELSE sqrtA
      hi == IF sqrtA > sqrtB THEN sqrtA ELSE sqrtB
  IN  mulDivRoundingUp(liquidity, hi - lo, Q96)

\* Position.mintAmounts of a position of the pool at currentTick
mintAmounts(currentTick, tickLower, tickUpper, liquidity) ==
  IF currentTick < tickLower
    THEN [amount0 |-> getAmount0Delta(getSqrtRatioAtTick(tickLower),
                                      getSqrtRatioAtTick(tickUpper), liquidity),
          amount1 |-> 0]
  ELSE IF currentTick < tickUpper
    THEN [amount0 |-> getAmount0Delta(getSqrtRatioAtTick(currentTick),
                                      getSqrtRatioAtTick(tickUpper), liquidity),
          amount1 |-> getAmount1Delta(getSqrtRatioAtTick(tickLower),
                                      getSqrtRatioAtTick(currentTick), liquidity)]
  ELSE [amount0 |-> 0,
        amount1 |-> getAmount1Delta(getSqrtRatioAtTick(tickLower),
                                    getSqrtRatioAtTick(tickUpper), liquidity)]

\* the switch on feeTier: FeeAmount.LOWEST/LOW/MEDIUM/HIGH, default MEDIUM
feeAmountOf(feeTier) ==
  CASE feeTier = 100   -> 100
    [] feeTier = 500   -> 500
    [] feeTier = 3000  -> 3000
    [] feeTier = 10000 -> 10000
    [] OTHER           -> 3000

\* the SDK's TICK_SPACINGS[feeAmount], which is pool.tickSpacing
poolTickSpacing(feeAmount) ==
  CASE feeAmount = 100   -> 1
    [] feeAmount = 500   -> 10
    [] feeAmount = 3000  -> 60
    [] feeAmount = 10000 -> 200

\* the invariants of the Position constructor (TICK_ORDER, TICK_LOWER,
\* TICK_UPPER)
positionTicksOk(tickLower, tickUpper, feeAmount) ==
  /\ tickLower < tickUpper
  /\ tickLower >= MIN_TICK /\ tickLower % poolTickSpacing(feeAmount) = 0
  /\ tickUpper <= MAX_TICK /\ tickUpper % poolTickSpacing(feeAmount) = 0

\* Position.fromAmounts: the position's liquidity, or a throw
fromAmounts(currentTick, tickLower, tickUpper, amount0, amount1, feeAmount) ==
  IF ~positionTicksOk(tickLower, tickUpper, feeAmount)
    THEN [threw |-> TRUE]
    ELSE [threw |-> FALSE,
          liquidity |-> maxLiquidityForAmounts(getSqrtRatioAtTick(currentTick),
                                               getSqrtRatioAtTick(tickLower),
                                               getSqrtRatioAtTick(tickUpper),
                                               amount0, amount1)]

\* Position.fromAmount0({pool, tickLower, tickUpper, amount0, useFullPrecision})
fromAmount0(currentTick, tickLower, tickUpper, amount0, feeAmount) ==
  fromAmounts(currentTick, tickLower, tickUpper, amount0, MaxUint256, feeAmount)

\* Position.fromAmount1({pool, tickLower, tickUpper, amount1})
fromAmount1(currentTick, tickLower, tickUpper, amount1, feeAmount) ==
  fromAmounts(currentTick, tickLower, tickUpper, MaxUint256, amount1, feeAmount)

\* amounts of a Position as bigint, a throw staying a throw
positionAmounts(position, currentTick, tickLower, tickUpper) ==
  IF position.threw
    THEN [threw |-> TRUE]
    ELSE LET m == mintAmounts(currentTick, tickLower, tickUpper, position.liquidity)
         IN  [threw |-> FALSE, amount0 |-> m.amount0, amount1 |-> m.amount1]

Threw == [threw |-> TRUE]

(***************************************************************************)
(* LiquidityAllocator (dex.ts)                                             *)
(***************************************************************************)

\* faulty variant of ticksRejected: the order is checked, the protocol bounds are not
ticksRejected_orderOnly(tickLower, tickUpper) ==
  tickLower >= tickUpper

\* "Validate ticks" and "Ensure ticks are within valid range": TRUE when the
\* allocator throws (the same two checks open both allocators)
ticksRejected(tickLower, tickUpper) ==
  \/ tickLower >= tickUpper
  \/ tickLower < MIN_TICK \/ tickUpper > MAX_TICK

\* faulty variant of budgetPosition: the budget is spent as token0 in both orientations
budgetPosition_alwaysAmount0(currentTick, tickLower, tickUpper, totalValue, isToken0Outcome, feeAmount) ==
  fromAmount0(currentTick, tickLower, tickUpper, totalValue, feeAmount)

\* Mode A, price within range: the position bought with the collateral budget
budgetPosition(currentTick, tickLower, tickUpper, totalValue, isToken0Outcome, feeAmount) ==
  IF isToken0Outcome
    THEN fromAmount1(currentTick, tickLower, tickUpper, totalValue, feeAmount)
    ELSE fromAmount0(currentTick, tickLower, tickUpper, totalValue, feeAmount)

\* faulty variant of tokenAmounts: currentTick = tickUpper is taken as within range
tokenAmounts_upperInclusive(currentTick, tickLower, tickUpper, totalValue, isToken0Outcome, feeAmount) ==
  IF currentTick < tickLower
    THEN [threw |-> FALSE, amount0 |-> totalValue, amount1 |-> 0]
  ELSE IF currentTick > tickUpper
    THEN [threw |-> FALSE, amount0 |-> 0, amount1 |-> totalValue]
  ELSE positionAmounts(budgetPosition(currentTick, tickLower, tickUpper, totalValue,
                                      isToken0Outcome, feeAmount),
                       currentTick, tickLower, tickUpper)

\* Mode A, the three branches on currentTick
tokenAmounts(currentTick, tickLower, tickUpper, totalValue, isToken0Outcome, feeAmount) ==
  IF currentTick < tickLower
    THEN [threw |-> FALSE, amount0 |-> totalValue, amount1 |-> 0]
  ELSE IF currentTick >= tickUpper
    THEN [threw |-> FALSE, amount0 |-> 0, amount1 |-> totalValue]
  ELSE positionAmounts(budgetPosition(currentTick, tickLower, tickUpper, totalValue,
                                      isToken0Outcome, feeAmount),
                       currentTick, tickLower, tickUpper)

\* Mode A.  The parameters tickSpacing, chainId, decimals0 and decimals1 only
\* build the SDK's Token objects and change no amount; they are left out.
calculateTokenAmountsForLiquidity(currentTick, tickLower, tickUpper, totalValue, isToken0Outcome, feeTier) ==
  IF ticksRejected(tickLower, tickUpper)
    THEN Threw
    ELSE LET a == tokenAmounts(currentTick, tickLower, tickUpper, totalValue,
                               isToken0Outcome, feeAmountOf(feeTier))
         IN  IF a.threw
               THEN Threw
               ELSE [threw            |-> FALSE,
                     amount0          |-> a.amount0,
                     amount1          |-> a.amount1,
                     collateralNeeded |-> IF isToken0Outcome THEN a.amount1 ELSE a.amount0,
                     outcomeNeeded    |-> IF isToken0Outcome THEN a.amount0 ELSE a.amount1]

\* Mode B, price below range: all of the supply of token0
fixedBelow(availableCollateral, availableOutcome, isToken0Outcome) ==
  IF isToken0Outcome
    THEN [threw |-> FALSE, amount0 |-> availableOutcome, amount1 |-> 0]
    ELSE [threw |-> FALSE, amount0 |-> availableCollateral, amount1 |-> 0]

\* faulty variant of fixedAbove: the supplies of the two tokens are swapped
fixedAbove_swapped(availableCollateral, availableOutcome, isToken0Outcome) ==
  IF isToken0Outcome
    THEN [threw |-> FALSE, amount0 |-> 0, amount1 |-> availableOutcome]
    ELSE [threw |-> FALSE, amount0 |-> 0, amount1 |-> availableCollateral]

\* Mode B, price above range: all of the supply of token1
fixedAbove(availableCollateral, availableOutcome, isToken0Outcome) ==
  IF isToken0Outcome
    THEN [threw |-> FALSE, amount0 |-> 0, amount1 |-> availableCollateral]
    ELSE [threw |-> FALSE, amount0 |-> 0, amount1 |-> availableOutcome]

\* faulty variant of optimalPosition: anchored on the collateral supply as the wrong token
optimalPosition_wrongToken(currentTick, tickLower, tickUpper, availableCollateral, isToken0Outcome, feeAmount) ==
  IF isToken0Outcome
    THEN fromAmount0(currentTick, tickLower, tickUpper, availableCollateral, feeAmount)
    ELSE fromAmount1(currentTick, tickLower, tickUpper, availableCollateral, feeAmount)

\* Mode B, price within range: optimalPosition, from the collateral supply
optimalPosition(currentTick, tickLower, tickUpper, availableCollateral, isToken0Outcome, feeAmount) ==
  IF isToken0Outcome
    THEN fromAmount1(currentTick, tickLower, tickUpper, availableCollateral, feeAmount)
    ELSE fromAmount0(currentTick, tickLower, tickUpper, availableCollateral, feeAmount)

\* faulty variant of constrained: the optimal amount is not capped by the supply
constrained_uncapped(optimalAmount, available) ==
  optimalAmount

\* constrainedAmount0 / constrainedAmount1
constrained(optimalAmount, available) ==
  IF optimalAmount > available THEN available ELSE optimalAmount

\* faulty variant of constrainedByOutcome: the capped amounts are kept as they are
constrainedByOutcome_never(constrainedAmount, optimalAmount) ==
  FALSE

\* "If we're constrained by outcome tokens, recalculate based on that"
constrainedByOutcome(constrainedAmount, optimalAmount) ==
  constrainedAmount < optimalAmount

\* Mode B, price within range
fixedInRange(currentTick, tickLower, tickUpper, availableCollateral, availableOutcome, isToken0Outcome, feeAmount) ==
  LET optimal == positionAmounts(optimalPosition(currentTick, tickLower, tickUpper,
                                                 availableCollateral, isToken0Outcome,
                                                 feeAmount),
                                 currentTick, tickLower, tickUpper)
  IN  IF optimal.threw THEN Threw
      ELSE IF isToken0Outcome
        THEN LET constrainedAmount0 == constrained(optimal.amount0, availableOutcome)
                 constrainedAmount1 == constrained(optimal.amount1, availableCollateral)
             IN  IF constrainedByOutcome(constrainedAmount0, optimal.amount0)
                   THEN positionAmounts(fromAmount0(currentTick, tickLower, tickUpper,
                                                    constrainedAmount0, feeAmount),
                                        currentTick, tickLower, tickUpper)
                   ELSE [threw |-> FALSE, amount0 |-> constrainedAmount0,
                         amount1 |-> constrainedAmount1]
        ELSE LET constrainedAmount0 == constrained(optimal.amount0, availableCollateral)
                 constrainedAmount1 == constrained(optimal.amount1, availableOutcome)
             IN  IF constrainedByOutcome(constrainedAmount1, optimal.amount1)
                   THEN positionAmounts(fromAmount1(currentTick, tickLower, tickUpper,
                                                    constrainedAmount1, feeAmount),
                                        currentTick, tickLower, tickUpper)
                   ELSE [threw |-> FALSE, amount0 |-> constrainedAmount0,
                         amount1 |-> constrainedAmount1]

\* Mode B (tickSpacing, chainId and decimals left out as in Mode A)
calculateLiquidityFromFixedTokens(currentTick, tickLower, tickUpper, availableCollateral, availableOutcome, isToken0Outcome, feeTier) ==
  IF ticksRejected(tickLower, tickUpper)
    THEN Threw
    ELSE LET a == IF currentTick < tickLower
                    THEN fixedBelow(availableCollateral, availableOutcome, isToken0Outcome)
                  ELSE IF currentTick >= tickUpper
                    THEN fixedAbove(availableCollateral, availableOutcome, isToken0Outcome)
                  ELSE fixedInRange(currentTick, tickLower, tickUpper, availableCollateral,
                                    availableOutcome, isToken0Outcome, feeAmountOf(feeTier))
         IN  IF a.threw
               THEN Threw
               ELSE [threw          |-> FALSE,
                     amount0        |-> a.amount0,
                     amount1        |-> a.amount1,
                     collateralUsed |-> IF isToken0Outcome THEN a.amount1 ELSE a.amount0,
                     outcomeUsed    |-> IF isToken0Outcome THEN a.amount0 ELSE a.amount1]

(***************************************************************************)
(* The state machine: one call per step                                    *)
(***************************************************************************)
NoCall == [fn |-> "none"]

NoRet == [threw |-> FALSE]

Init ==
  /\ pc = "idle"
  /\ call = NoCall
  /\ ret = NoRet

CallTokenAmountsForLiquidity ==
  /\ pc = "idle"
  /\ \E currentTick \in PoolTicks, tickLower \in RangeTicks, tickUpper \in RangeTicks,
        totalValue \in Amounts, isToken0Outcome \in BOOLEAN, feeTier \in FeeTiers :
       /\ call' = [fn              |-> "calculateTokenAmountsForLiquidity",
                   currentTick     |-> currentTick,
                   tickLower       |-> tickLower,
                   tickUpper       |-> tickUpper,
                   totalValue      |-> totalValue,
                   isToken0Outcome |-> isToken0Outcome,
                   feeTier         |-> feeTier]
       /\ ret' = calculateTokenAmountsForLiquidity(currentTick, tickLower, tickUpper,
                                                   totalValue, isToken0Outcome, feeTier)
  /\ pc' = "done"

CallLiquidityFromFixedTokens ==
  /\ pc = "idle"
  /\ \E currentTick \in PoolTicks, tickLower \in RangeTicks, tickUpper \in RangeTicks,
        availableCollateral \in Amounts, availableOutcome \in Amounts,
        isToken0Outcome \in BOOLEAN, feeTier \in FeeTiers :
       /\ call' = [fn                  |-> "calculateLiquidityFromFixedTokens",
                   currentTick         |-> currentTick,
                   tickLower           |-> tickLower,
                   tickUpper           |-> tickUpper,
                   availableCollateral |-> availableCollateral,
                   availableOutcome    |-> availableOutcome,
                   isToken0Outcome     |-> isToken0Outcome,
                   feeTier             |-> feeTier]
       /\ ret' = calculateLiquidityFromFixedTokens(currentTick, tickLower, tickUpper,
                                                   availableCollateral, availableOutcome,
                                                   isToken0Outcome, feeTier)
  /\ pc' = "done"

\* the caller takes the result; the next call starts from scratch
Return ==
  /\ pc = "done"
  /\ pc' = "idle"
  /\ call' = NoCall
  /\ ret' = NoRet

NextAlloc ==
  \/ CallTokenAmountsForLiquidity
  \/ CallLiquidityFromFixedTokens
  \/ Return

SpecAlloc == Init /\ [][NextAlloc]_vars

\* shorthands for the claims
IsModeA == pc = "done" /\ call.fn = "calculateTokenAmountsForLiquidity"

IsModeB == pc = "done" /\ call.fn = "calculateLiquidityFromFixedTokens"

Returned == ~ret.threw

BelowRange == call.currentTick < call.tickLower

AboveRange == call.currentTick >= call.tickUpper

InRange == call.tickLower <= call.currentTick /\ call.currentTick < call.tickUpper

(***************************************************************************)
(* Claims about the allocators, checked under SpecAlloc                    *)
(***************************************************************************)
\* the ticks of the call form a range the allocators accept
ValidRange ==
  /\ call.tickLower < call.tickUpper
  /\ MIN_TICK <= call.tickLower
  /\ call.tickUpper <= MAX_TICK

\* Mode A on the arguments of a Mode B call, with totalValue = availableCollateral
Unconstrained ==
  calculateTokenAmountsForLiquidity(call.currentTick, call.tickLower, call.tickUpper,
                                    call.availableCollateral, call.isToken0Outcome,
                                    call.feeTier)

\* C1: Mode B conservation.  Whatever calculateLiquidityFromFixedTokens
\* returns, collateralUsed <= availableCollateral and outcomeUsed <=
\* availableOutcome.
C1_Conservation ==
  (IsModeB /\ Returned) =>
     /\ ret.collateralUsed <= call.availableCollateral
     /\ ret.outcomeUsed <= call.availableOutcome

\* a Mode B call within range whose outcome supply caps the position
C1_Witness ==
  /\ IsModeB /\ Returned /\ InRange
  /\ call.availableOutcome > 0
  /\ ret.outcomeUsed = call.availableOutcome
  /\ ret.collateralUsed > 0
  /\ ret.collateralUsed < call.availableCollateral

\* C2: Mode B re-anchoring.  Within range, when the unconstrained allocation
\* for availableCollateral needs more outcome token than availableOutcome, the
\* returned amounts are the mint amounts of the one position whose liquidity is
\* derived from availableOutcome, and the collateral amount is not above its
\* unconstrained value.
C2_ReAnchoring ==
  (IsModeB /\ Returned /\ InRange /\ ~Unconstrained.threw
     /\ Unconstrained.outcomeNeeded > call.availableOutcome) =>
     LET sqrtCur == getSqrtRatioAtTick(call.currentTick)
         sqrtA   == getSqrtRatioAtTick(call.tickLower)
         sqrtB   == getSqrtRatioAtTick(call.tickUpper)
         L == IF call.isToken0Outcome
                THEN maxLiquidityForAmount0Precise(sqrtCur, sqrtB, call.availableOutcome)
                ELSE maxLiquidityForAmount1(sqrtA, sqrtCur, call.availableOutcome)
     IN  /\ ret.amount0 = getAmount0Delta(sqrtCur, sqrtB, L)
         /\ ret.amount1 = getAmount1Delta(sqrtA, sqrtCur, L)
         /\ ret.collateralUsed <= Unconstrained.collateralNeeded

\* a re-anchored position that uses less collateral than the unconstrained one
C2_Witness ==
  /\ IsModeB /\ Returned /\ InRange /\ ~Unconstrained.threw
  /\ Unconstrained.outcomeNeeded > call.availableOutcome
  /\ call.availableOutcome > 0
  /\ ret.collateralUsed > 0
  /\ ret.collateralUsed < Unconstrained.collateralNeeded

\* C3: Mode A single-sidedness.  On a valid range, with currentTick below
\* tickLower the result is (totalValue, 0); with currentTick at or above
\* tickUpper it is (0, totalValue).
C3_ModeASingleSided ==
  (IsModeA /\ ValidRange) =>
     /\ BelowRange => (Returned /\ ret.amount0 = call.totalValue /\ ret.amount1 = 0)
     /\ AboveRange => (Returned /\ ret.amount0 = 0 /\ ret.amount1 = call.totalValue)

\* currentTick = tickUpper, counted as above the range
C3_Witness ==
  /\ IsModeA /\ ValidRange /\ Returned
  /\ call.currentTick = call.tickUpper
  /\ call.totalValue > 0
  /\ ret.amount0 = 0
  /\ ret.amount1 = call.totalValue

\* C4: Mode B single-sidedness.  Below the range amount1 = 0 and amount0 is the
\* supply of token0; at or above the range amount0 = 0 and amount1 is the
\* supply of token1.
C4_ModeBSingleSided ==
  (IsModeB /\ ValidRange) =>
     /\ BelowRange =>
          /\ Returned
          /\ ret.amount1 = 0
          /\ ret.amount0 = (IF call.isToken0Outcome THEN call.availableOutcome
                                                    ELSE call.availableCollateral)
     /\ AboveRange =>
          /\ Returned
          /\ ret.amount0 = 0
          /\ ret.amount1 = (IF call.isToken0Outcome THEN call.availableCollateral
                                                    ELSE call.availableOutcome)

\* above the range with different supplies: token1 is the collateral
C4_Witness ==
  /\ IsModeB /\ ValidRange /\ Returned /\ AboveRange
  /\ call.isToken0Outcome
  /\ call.availableCollateral > call.availableOutcome
  /\ ret.amount0 = 0
  /\ ret.amount1 = call.availableCollateral

\* C5: Mode A budget bound.  Within range, collateralNeeded <= totalValue in
\* both orientations.
C5_BudgetBound ==
  (IsModeA /\ Returned /\ InRange) => ret.collateralNeeded <= call.totalValue

\* a two-sided position that takes the whole budget
C5_Witness ==
  /\ IsModeA /\ Returned /\ InRange
  /\ call.totalValue > 0
  /\ ret.collateralNeeded = call.totalValue
  /\ ret.outcomeNeeded > 0

\* C6: Mode A in-range liquidity.  Within range (currentTick = tickLower
\* included) the liquidity behind the returned amounts is the one bought with
\* totalValue of the collateral token, the outcome amount is derived from it,
\* and the liquidity is never the one derived from an outcome-token amount
\* (the SDK's MaxUint256 placeholder on the outcome side).
C6_LiquidityFromCollateral ==
  (IsModeA /\ Returned /\ InRange) =>
     LET sqrtCur == getSqrtRatioAtTick(call.currentTick)
         sqrtA   == getSqrtRatioAtTick(call.tickLower)
         sqrtB   == getSqrtRatioAtTick(call.tickUpper)
         L == budgetPosition(call.currentTick, call.tickLower, call.tickUpper,
                             call.totalValue, call.isToken0Outcome,
                             feeAmountOf(call.feeTier)).liquidity
     IN  IF call.isToken0Outcome
           THEN /\ L # maxLiquidityForAmount0Precise(sqrtCur, sqrtB, MaxUint256)
                /\ sqrtCur > sqrtA => L = maxLiquidityForAmount1(sqrtA, sqrtCur, call.totalValue)
                /\ ret.outcomeNeeded = getAmount0Delta(sqrtCur, sqrtB, L)
           ELSE /\ sqrtCur > sqrtA => L # maxLiquidityForAmount1(sqrtA, sqrtCur, MaxUint256)
                /\ L = maxLiquidityForAmount0Precise(sqrtCur, sqrtB, call.totalValue)
                /\ ret.outcomeNeeded = getAmount1Delta(sqrtA, sqrtCur, L)

\* C7: Mode B agrees with Mode A when the supply suffices.  Within range, if
\* the outcome amount of the unconstrained allocation is <= availableOutcome,
\* Mode B returns Mode A's (amount0, amount1) for totalValue =
\* availableCollateral.
C7_AgreesWithModeA ==
  (IsModeB /\ InRange /\ ~Unconstrained.threw
     /\ Unconstrained.outcomeNeeded <= call.availableOutcome) =>
     /\ Returned
     /\ ret.amount0 = Unconstrained.amount0
     /\ ret.amount1 = Unconstrained.amount1

\* a two-sided position within the outcome supply
C7_Witness ==
  /\ IsModeB /\ Returned /\ InRange /\ ~Unconstrained.threw
  /\ Unconstrained.outcomeNeeded <= call.availableOutcome
  /\ ret.amount0 > 0
  /\ ret.amount1 > 0

\* C8: zero budget.  On a valid range whose ticks the pool accepts, Mode A
\* with totalValue = 0 and Mode B with both supplies 0 return (0, 0) and do not
\* throw, wherever currentTick is.
C8_ZeroBudget ==
  /\ (IsModeA /\ call.totalValue = 0
        /\ positionTicksOk(call.tickLower, call.tickUpper, feeAmountOf(call.feeTier))) =>
       (Returned /\ ret.amount0 = 0 /\ ret.amount1 = 0)
  /\ (IsModeB /\ call.availableCollateral = 0 /\ call.availableOutcome = 0
        /\ positionTicksOk(call.tickLower, call.tickUpper, feeAmountOf(call.feeTier))) =>
       (Returned /\ ret.amount0 = 0 /\ ret.amount1 = 0)

\* C9: an invalid tick range is rejected.  Both allocators throw when
\* tickLower >= tickUpper, tickLower < MIN_TICK or tickUpper > MAX_TICK.
C9_InvalidRangeRejected ==
  ((IsModeA \/ IsModeB) /\ ~ValidRange) => ret.threw

\* an ordered range that starts below MIN_TICK, with the price above it
C9_Witness ==
  /\ IsModeB /\ ret.threw
  /\ call.tickLower < MIN_TICK
  /\ call.tickLower < call.tickUpper
  /\ call.tickUpper <= call.currentTick

(***************************************************************************)
(* PriceTickConverter and RangeCalculator (dex.ts)                         *)
(*                                                                         *)
(* A price is a double.  The model writes it as a pair <<n, d>> that       *)
(* stands for the double n / d: <<5, 100>> is 0.05 and <<100, 5>> is       *)
(* 1 / 0.05; <<100, 0>> is 1 / 0 = Infinity.                               *)
(***************************************************************************)
\* the hundredths the model takes minPrice and maxPrice from
PriceHundredths == {0, 1, 5, 50, 95, 99, 100}

Prices == {<<n, 100>> : n \in PriceHundredths}

\* 1 / price
reciprocal(price) == <<price[2], price[1]>>

\* Math.log(0) / LN_1_0001 = -Infinity and Math.log(1 / 0) / LN_1_0001 =
\* Infinity, which Math.floor, division and multiplication by a positive
\* spacing leave as they are.  The two are written as integers beyond every
\* tick and are only ever compared, never computed with.
NegInfinity == -(2 ^ 30)

PosInfinity == 2 ^ 30

IsFinite(x) == x # NegInfinity /\ x # PosInfinity

\* the ticks t of the model for which Math.log(Math.pow(1.0001, t)) /
\* LN_1_0001 is just below t in IEEE double arithmetic; for its other ticks
\* the quotient is t or just above
LandsBelow ==
  {
   -2800, -2200, -1800, -960, -900, -840, -720, -600, -420, -300, -160,
   -150, -140, -130, -120, -90, -70, -60, -50, -20, -15, -12, -11, -10,
   -9, -5, -4, -2, -1, 2, 3, 4, 7, 14, 15, 16, 20, 30, 50, 60, 70, 100,
   110, 120, 160, 180, 200, 300, 400, 540, 600, 720, 800, 960, 1200,
   1400, 2200, 2400, 2600
  }

\* faulty variant of powerToTick: divides the logarithm by 0.0001 instead of
\* LN_1_0001
powerToTick_approxLog(tick) == tick - (tick \div 20000)

\* Math.floor(Math.log(p) / LN_1_0001) for the double p = Math.pow(1.0001, tick)
powerToTick(tick) == IF tick \in LandsBelow THEN tick - 1 ELSE tick

\* priceToTick: Math.floor(Math.log(price) / LN_1_0001), tabulated in IEEE
\* double arithmetic for the prices of the model and their reciprocals
priceToTick(price) ==
  CASE price = <<0, 100>>   -> NegInfinity
    [] price = <<1, 100>>   -> -46055
    [] price = <<5, 100>>   -> -29959
    [] price = <<50, 100>>  -> -6932
    [] price = <<95, 100>>  -> -513
    [] price = <<99, 100>>  -> -101
    [] price = <<100, 100>> -> 0
    [] price = <<100, 99>>  -> 100
    [] price = <<100, 95>>  -> 512
    [] price = <<100, 50>>  -> 6931
    [] price = <<100, 5>>   -> 29958
    [] price = <<100, 1>>   -> 46054
    [] price = <<100, 0>>   -> PosInfinity
    [] price = <<25, 100>>  -> -13864
    [] price = <<75, 100>>  -> -2877
    [] price = <<100, 75>>  -> 2876
    [] price = <<100, 25>>  -> 13863
    [] Len(price) = 3       -> powerToTick(price[3])

\* faulty variant of floorToSpacing: rounds toward zero, so that a negative
\* tick is rounded up
floorToSpacing_truncate(x, tickSpacing) ==
  IF ~IsFinite(x) THEN x
  ELSE IF x >= 0 THEN (x \div tickSpacing) * tickSpacing
  ELSE -(((-x) \div tickSpacing) * tickSpacing)

\* Math.floor(x / tickSpacing) * tickSpacing
floorToSpacing(x, tickSpacing) ==
  IF IsFinite(x) THEN (x \div tickSpacing) * tickSpacing ELSE x

\* Math.ceil(x / tickSpacing) * tickSpacing
ceilToSpacing(x, tickSpacing) ==
  IF IsFinite(x) THEN (-((-x) \div tickSpacing)) * tickSpacing ELSE x

\* Math.max(tickLower, MIN_TICK)
maxWithMinTick(x) ==
  IF x = NegInfinity THEN MIN_TICK
  ELSE IF x = PosInfinity THEN PosInfinity
  ELSE IF x > MIN_TICK THEN x ELSE MIN_TICK

\* Math.min(tickUpper, MAX_TICK)
minWithMaxTick(x) ==
  IF x = PosInfinity THEN MAX_TICK
  ELSE IF x = NegInfinity THEN NegInfinity
  ELSE IF x < MAX_TICK THEN x ELSE MAX_TICK

\* faulty variant of tickGeq: tickLower > tickUpper, which lets a range of
\* zero width through
tickGeq_strict(x, y) ==
  IF x = y THEN FALSE
  ELSE IF x = PosInfinity \/ y = NegInfinity THEN TRUE
  ELSE IF x = NegInfinity \/ y = PosInfinity THEN FALSE
  ELSE x > y

\* tickLower >= tickUpper on doubles
tickGeq(x, y) ==
  IF x = PosInfinity \/ y = NegInfinity THEN TRUE
  ELSE IF x = NegInfinity \/ y = PosInfinity THEN FALSE
  ELSE x >= y

\* faulty variant of calculateTickBounds: returns the clamped ticks without
\* the final alignment of lines 83-84
calculateTickBounds_noRealign(minPrice, maxPrice, tickSpacing, isToken0Outcome) ==
  LET rawLower == IF isToken0Outcome
                    THEN floorToSpacing(priceToTick(minPrice), tickSpacing)
                    ELSE floorToSpacing(priceToTick(reciprocal(maxPrice)), tickSpacing)
      rawUpper == IF isToken0Outcome
                    THEN ceilToSpacing(priceToTick(maxPrice), tickSpacing)
                    ELSE ceilToSpacing(priceToTick(reciprocal(minPrice)), tickSpacing)
      clampedLower == maxWithMinTick(rawLower)
      clampedUpper == minWithMaxTick(rawUpper)
  IN  IF tickGeq(clampedLower, clampedUpper)
        THEN Threw
        ELSE [threw     |-> FALSE,
              tickLower |-> clampedLower,
              tickUpper |-> clampedUpper]

\* faulty variant of calculateTickBounds: with the outcome token as token0
\* the upper tick is taken from the reciprocal of maxPrice
calculateTickBounds_mixedOrientation(minPrice, maxPrice, tickSpacing, isToken0Outcome) ==
  LET rawLower == IF isToken0Outcome
                    THEN floorToSpacing(priceToTick(minPrice), tickSpacing)
                    ELSE floorToSpacing(priceToTick(reciprocal(maxPrice)), tickSpacing)
      rawUpper == IF isToken0Outcome
                    THEN ceilToSpacing(priceToTick(reciprocal(maxPrice)), tickSpacing)
                    ELSE ceilToSpacing(priceToTick(reciprocal(minPrice)), tickSpacing)
      clampedLower == maxWithMinTick(rawLower)
      clampedUpper == minWithMaxTick(rawUpper)
  IN  IF tickGeq(clampedLower, clampedUpper)
        THEN Threw
        ELSE [threw     |-> FALSE,
              tickLower |-> floorToSpacing(clampedLower, tickSpacing),
              tickUpper |-> ceilToSpacing(clampedUpper, tickSpacing)]

calculateTickBounds(minPrice, maxPrice, tickSpacing, isToken0Outcome) ==
  LET rawLower == IF isToken0Outcome
                    THEN floorToSpacing(priceToTick(minPrice), tickSpacing)
                    ELSE floorToSpacing(priceToTick(reciprocal(maxPrice)), tickSpacing)
      rawUpper == IF isToken0Outcome
                    THEN ceilToSpacing(priceToTick(maxPrice), tickSpacing)
                    ELSE ceilToSpacing(priceToTick(reciprocal(minPrice)), tickSpacing)
      clampedLower == maxWithMinTick(rawLower)
      clampedUpper == minWithMaxTick(rawUpper)
  IN  IF tickGeq(clampedLower, clampedUpper)
        THEN Threw
        ELSE [threw     |-> FALSE,
              tickLower |-> floorToSpacing(clampedLower, tickSpacing),
              tickUpper |-> ceilToSpacing(clampedUpper, tickSpacing)]

\* the tick spacings of the four fee tiers
TickSpacings == {1, 10, 60, 200}

CallTickBounds ==
  /\ pc = "idle"
  /\ \E minPrice \in Prices, maxPrice \in Prices, tickSpacing \in TickSpacings,
        isToken0Outcome \in BOOLEAN :
       /\ call' = [fn              |-> "calculateTickBounds",
                   minPrice        |-> minPrice,
                   maxPrice        |-> maxPrice,
                   tickSpacing     |-> tickSpacing,
                   isToken0Outcome |-> isToken0Outcome]
       /\ ret' = calculateTickBounds(minPrice, maxPrice, tickSpacing, isToken0Outcome)
  /\ pc' = "done"

NextTicks ==
  \/ CallTickBounds
  \/ Return

SpecTicks == Init /\ [][NextTicks]_vars

IsTickBounds == pc = "done" /\ call.fn = "calculateTickBounds"

(***************************************************************************)
(* Claims about calculateTickBounds, checked under SpecTicks               *)
(***************************************************************************)
\* C10: tick bounds stay in protocol bounds.  Whenever calculateTickBounds
\* returns a range, clamped raw ticks included, MIN_TICK <= tickLower and
\* tickUpper <= MAX_TICK.
C10_TickBoundsInProtocolBounds ==
  (IsTickBounds /\ Returned) =>
     /\ MIN_TICK <= ret.tickLower
     /\ ret.tickUpper <= MAX_TICK

\* the raw ticks of the call, before rounding to the spacing: the tick of
\* minPrice and of maxPrice when the outcome token is token0, of 1 / maxPrice
\* and of 1 / minPrice otherwise
RawLowerTick ==
  priceToTick(IF call.isToken0Outcome THEN call.minPrice ELSE reciprocal(call.maxPrice))

RawUpperTick ==
  priceToTick(IF call.isToken0Outcome THEN call.maxPrice ELSE reciprocal(call.minPrice))

Unclamped == IsFinite(RawLowerTick) /\ IsFinite(RawUpperTick)

\* C11: alignment.  Every tickLower and tickUpper that calculateTickBounds
\* returns is an exact multiple of the supplied tickSpacing, also when the
\* raw tick was clamped to MIN_TICK or MAX_TICK.
C11_Alignment ==
  (IsTickBounds /\ Returned) =>
     /\ ret.tickLower % call.tickSpacing = 0
     /\ ret.tickUpper % call.tickSpacing = 0

\* a returned range whose lower raw tick was clamped to MIN_TICK, which is
\* not a multiple of the spacing 60
C11_Witness ==
  /\ IsTickBounds /\ Returned
  /\ ~Unclamped
  /\ call.tickSpacing = 60
  /\ ret.tickLower < MIN_TICK + 60

\* C12: non-empty range or error.  calculateTickBounds returns a range with
\* tickLower < tickUpper or throws, and a price range whose raw ticks, rounded
\* to the spacing, leave no width is never returned.
C12_NonEmptyOrError ==
  IsTickBounds =>
     /\ Returned => ret.tickLower < ret.tickUpper
     /\ ( /\ Unclamped
          /\ RawLowerTick - (RawLowerTick % call.tickSpacing)
               >= RawUpperTick + ((-RawUpperTick) % call.tickSpacing) )
        => ret.threw

\* a call with minPrice = maxPrice, whose range has zero width after
\* rounding, has thrown
C12_Witness ==
  /\ IsTickBounds /\ ret.threw
  /\ Unclamped
  /\ call.minPrice = call.maxPrice
  /\ RawLowerTick % call.tickSpacing = 0

\* C13: rounding direction and orientation.  Without clamping, the returned
\* tickLower is the greatest multiple of tickSpacing that is <= the raw lower
\* tick and tickUpper the least multiple that is >= the raw upper tick, the
\* raw ticks being those of minPrice and maxPrice when the outcome token is
\* token0 and of 1 / maxPrice and 1 / minPrice otherwise.
C13_RoundingDirection ==
  (IsTickBounds /\ Returned /\ Unclamped) =>
     /\ ret.tickLower % call.tickSpacing = 0
     /\ ret.tickLower <= RawLowerTick
     /\ RawLowerTick < ret.tickLower + call.tickSpacing
     /\ ret.tickUpper % call.tickSpacing = 0
     /\ RawUpperTick <= ret.tickUpper
     /\ ret.tickUpper - call.tickSpacing < RawUpperTick

\* a returned range whose raw lower tick is negative and not a multiple of
\* the spacing
C13_Witness ==
  /\ IsTickBounds /\ Returned /\ Unclamped
  /\ RawLowerTick < 0
  /\ RawLowerTick % call.tickSpacing # 0
  /\ ret.tickLower < RawLowerTick

\* price a <= price b, for prices over the same denominator
PriceLeq(a, b) == a[1] * b[2] <= b[1] * a[2]

\* the ranges [min2, max2] that contain the range of the call and for which
\* calculateTickBounds returns with the call's spacing and orientation
WiderReturned ==
  {r \in Prices \X Prices :
     /\ PriceLeq(r[1], call.minPrice)
     /\ PriceLeq(call.maxPrice, r[2])
     /\ ~calculateTickBounds(r[1], r[2], call.tickSpacing, call.isToken0Outcome).threw}

WidthOf(r) ==
  LET b == calculateTickBounds(r[1], r[2], call.tickSpacing, call.isToken0Outcome)
  IN  b.tickUpper - b.tickLower

\* C14: monotonicity.  For a fixed spacing and orientation, when
\* calculateTickBounds returns for [min1, max1] and for a range [min2, max2]
\* with min2 <= min1 < max1 <= max2, the width of the second is >= the width
\* of the first.
C14_Monotonicity ==
  (IsTickBounds /\ Returned /\ ~PriceLeq(call.maxPrice, call.minPrice)) =>
     \A r \in WiderReturned : WidthOf(r) >= ret.tickUpper - ret.tickLower

\* a returned range with a strictly wider price range whose tick range is
\* strictly wider
C14_Witness ==
  /\ IsTickBounds /\ Returned /\ ~PriceLeq(call.maxPrice, call.minPrice)
  /\ \E r \in WiderReturned :
        /\ r # <<call.minPrice, call.maxPrice>>
        /\ WidthOf(r) > ret.tickUpper - ret.tickLower

(***************************************************************************)
(* calculateComplementaryRanges (src/addLiquidity.ts).  Its prices are     *)
(* doubles, and its sums and differences are rounded.  The model keeps the *)
(* arithmetic of doubles at a reduced width: a number is an integer count  *)
(* of units of 1 / One, and the result of + and - is rounded to the        *)
(* nearest number of MantissaBits significant bits, ties to even, as IEEE  *)
(* 754 does with 53 bits.                                                  *)
(***************************************************************************)
MantissaBits == 6

\* the number 1
One == 2 ^ 10

RECURSIVE bitLength(_)
bitLength(n) == IF n = 0 THEN 0 ELSE 1 + bitLength(n \div 2)

\* the double nearest to the exact value x, ties to even
roundToDouble(x) ==
  LET a     == IF x < 0 THEN -x ELSE x
      shift == bitLength(a) - MantissaBits
      q     == 2 ^ (IF shift > 0 THEN shift ELSE 0)
      lo    == (a \div q) * q
      rem   == a - lo
      r     == IF 2 * rem > q \/ (2 * rem = q /\ (a \div q) % 2 = 1)
                 THEN lo + q
                 ELSE lo
  IN  IF x < 0 THEN -r ELSE r

\* a + b on doubles
doubleAdd(a, b) == roundToDouble(a + b)

\* a - b on doubles
doubleSub(a, b) == roundToDouble(a - b)

\* a / 2 on doubles, which is exact: the numbers of the model are even
doubleHalf(a) == a \div 2

\* the doubles of [0, 1]
UnitDoubles == {x \in 0..One : x % 2 = 0 /\ roundToDouble(x) = x}

\* the prices a caller passes: the doubles of [0, 1], a negative one and
\* one above 1
RangePrices == UnitDoubles \cup {-(One \div 4), One + (One \div 4)}

\* faulty variant of rangeRejected: accepts minPrice = maxPrice
rangeRejected_strict(minPrice, maxPrice) ==
  minPrice > maxPrice \/ minPrice < 0 \/ maxPrice > One

\* minPrice >= maxPrice || minPrice < 0 || maxPrice > 1
rangeRejected(minPrice, maxPrice) ==
  minPrice >= maxPrice \/ minPrice < 0 \/ maxPrice > One

upRange(minPrice, maxPrice) ==
  [poolIndex    |-> 1,
   minPrice     |-> minPrice,
   maxPrice     |-> maxPrice,
   initialPrice |-> doubleHalf(doubleAdd(minPrice, maxPrice)),
   poolName     |-> "Up"]

\* faulty variant of downRange: the initial price is the one of the UP range
downRange_upMidpoint(minPrice, maxPrice) ==
  LET downMinPrice == doubleSub(One, maxPrice)
      downMaxPrice == doubleSub(One, minPrice)
  IN  [poolIndex    |-> 0,
       minPrice     |-> downMinPrice,
       maxPrice     |-> downMaxPrice,
       initialPrice |-> doubleHalf(doubleAdd(minPrice, maxPrice)),
       poolName     |-> "Down"]

downRange(minPrice, maxPrice) ==
  LET downMinPrice == doubleSub(One, maxPrice)
      downMaxPrice == doubleSub(One, minPrice)
  IN  [poolIndex    |-> 0,
       minPrice     |-> downMinPrice,
       maxPrice     |-> downMaxPrice,
       initialPrice |-> doubleHalf(doubleAdd(downMinPrice, downMaxPrice)),
       poolName     |-> "Down"]

\* faulty variant of calculateComplementaryRanges: returns the UP range first
calculateComplementaryRanges_upFirst(minPrice, maxPrice) ==
  IF rangeRejected(minPrice, maxPrice)
    THEN Threw
    ELSE [threw  |-> FALSE,
          ranges |-> <<upRange(minPrice, maxPrice), downRange(minPrice, maxPrice)>>]

calculateComplementaryRanges(minPrice, maxPrice) ==
  IF rangeRejected(minPrice, maxPrice)
    THEN Threw
    ELSE [threw  |-> FALSE,
          ranges |-> <<downRange(minPrice, maxPrice), upRange(minPrice, maxPrice)>>]

CallComplementaryRanges ==
  /\ pc = "idle"
  /\ \E minPrice \in RangePrices, maxPrice \in RangePrices :
       /\ call' = [fn       |-> "calculateComplementaryRanges",
                   minPrice |-> minPrice,
                   maxPrice |-> maxPrice]
       /\ ret' = calculateComplementaryRanges(minPrice, maxPrice)
  /\ pc' = "done"

NextRanges ==
  \/ CallComplementaryRanges
  \/ Return

SpecRanges == Init /\ [][NextRanges]_vars

IsRanges == pc = "done" /\ call.fn = "calculateComplementaryRanges"

\* 0 <= minPrice < maxPrice <= 1
RangePrecondition ==
  /\ 0 <= call.minPrice
  /\ call.minPrice < call.maxPrice
  /\ call.maxPrice <= One

UlpOfOne == One \div (2 ^ (MantissaBits - 1))

\* C16: complementarity.  For any 0 <= minPrice < maxPrice <= 1 the initial
\* prices of the two ranges add up to 1 within the tolerance, here one
\* spacing of the doubles at 1 (2.3e-16 at the width of a double, within the
\* 1e-9 of the claim).
C16_Complementarity ==
  (IsRanges /\ RangePrecondition) =>
     /\ Returned
     /\ LET sum == ret.ranges[1].initialPrice + ret.ranges[2].initialPrice
        IN  /\ sum - One <= UlpOfOne
            /\ One - sum <= UlpOfOne

\* an accepted range for which 1 - maxPrice was rounded and the two initial
\* prices do not add up to 1 exactly
C16_Witness ==
  /\ IsRanges /\ RangePrecondition /\ Returned
  /\ ret.ranges[1].minPrice # One - call.maxPrice
  /\ ret.ranges[1].initialPrice + ret.ranges[2].initialPrice # One

\* C17: price-range validation.  calculateComplementaryRanges throws exactly
\* when 0 <= minPrice < maxPrice <= 1 does not hold, and returns two ranges
\* otherwise.
C17_RangeValidation ==
  IsRanges =>
     /\ ret.threw <=> ~RangePrecondition
     /\ Returned => Len(ret.ranges) = 2

\* a rejected call with minPrice = maxPrice inside [0, 1]
C17_Witness ==
  /\ IsRanges /\ ret.threw
  /\ call.minPrice = call.maxPrice
  /\ 0 < call.minPrice /\ call.maxPrice < One

(***************************************************************************)
(* sortTokens (utils/dex.ts).  An address is the sequence of the UTF-16     *)
(* code units of its hexadecimal digits, at a reduced length: the digit 1, *)
(* and the letters A, B, a, b.                                             *)
(***************************************************************************)
AddrLen == 2

HexDigits == {49, 65, 66, 97, 98}

Addresses == [1..AddrLen -> HexDigits]

\* String.prototype.toLowerCase on the code units of an address
toLowerCase(str) ==
  [i \in 1..Len(str) |-> IF str[i] >= 65 /\ str[i] <= 90 THEN str[i] + 32 ELSE str[i]]

\* a < b on strings: the first code unit that differs decides, and a proper
\* prefix is less
RECURSIVE stringLess(_, _)
stringLess(a, b) ==
  IF b = <<>> THEN FALSE
  ELSE IF a = <<>> THEN TRUE
  ELSE IF Head(a) # Head(b) THEN Head(a) < Head(b)
  ELSE stringLess(Tail(a), Tail(b))

\* faulty variant of sortTokens: compares the addresses as they are written
sortTokens_caseSensitive(tokenA, tokenB) ==
  IF stringLess(tokenA, tokenB)
    THEN [threw |-> FALSE, token0 |-> tokenA, token1 |-> tokenB]
    ELSE [threw |-> FALSE, token0 |-> tokenB, token1 |-> tokenA]

sortTokens(tokenA, tokenB) ==
  IF stringLess(toLowerCase(tokenA), toLowerCase(tokenB))
    THEN [threw |-> FALSE, token0 |-> tokenA, token1 |-> tokenB]
    ELSE [threw |-> FALSE, token0 |-> tokenB, token1 |-> tokenA]

CallSortTokens ==
  /\ pc = "idle"
  /\ \E tokenA \in Addresses, tokenB \in Addresses :
       /\ call' = [fn |-> "sortTokens", tokenA |-> tokenA, tokenB |-> tokenB]
       /\ ret' = sortTokens(tokenA, tokenB)
  /\ pc' = "done"

NextSort ==
  \/ CallSortTokens
  \/ Return

SpecSort == Init /\ [][NextSort]_vars

IsSortTokens == pc = "done" /\ call.fn = "sortTokens"

\* the address with its letters in lower case
Lowered(addr) ==
  [i \in DOMAIN addr |-> IF addr[i] \in 65..70 THEN addr[i] + 32 ELSE addr[i]]

\* a <= b in lexicographic order, for addresses of the same length
LexLeq(a, b) ==
  \/ a = b
  \/ \E i \in DOMAIN a :
        /\ a[i] < b[i]
        /\ \A j \in DOMAIN a : j < i => a[j] = b[j]

(***************************************************************************)
(* Claims about sortTokens, checked under SpecSort                         *)
(***************************************************************************)
\* C20: sortTokens returns the two addresses it was given, unchanged in
\* case, ordered so that lowercase(token0) <= lowercase(token1) in
\* lexicographic order, whatever the case of their letters.
C20_SortTokens ==
  IsSortTokens =>
     /\ Returned
     /\ \/ ret.token0 = call.tokenA /\ ret.token1 = call.tokenB
        \/ ret.token0 = call.tokenB /\ ret.token1 = call.tokenA
     /\ LexLeq(Lowered(ret.token0), Lowered(ret.token1))

\* two addresses whose order as written is the opposite of their order in
\* lower case, returned swapped
C20_Witness ==
  /\ IsSortTokens /\ Returned
  /\ call.tokenA # call.tokenB
  /\ LexLeq(call.tokenA, call.tokenB)
  /\ ~LexLeq(Lowered(call.tokenA), Lowered(call.tokenB))
  /\ ret.token0 = call.tokenB /\ ret.token1 = call.tokenA

(***************************************************************************)
(* addLiquidity (src/addLiquidity.ts): the analysis of one pool of the     *)
(* market, from the user's price range to the tick bounds, the orientation *)
(* flag and the token pair that is approved and minted.  The token amounts *)
(* of the analysis change neither the flag nor the pair; of                *)
(* calculateTokenAmountsForLiquidity the analysis keeps the cases in which *)
(* it throws.  priceToTickArgs collects the prices given to priceToTick.   *)
(***************************************************************************)

\* the prices of a user range: the doubles 0, 0.25, 0.5, 0.75 and 1, whose
\* sums and differences are exact and which priceToTick tabulates
AnalysisPrices == {x \in UnitDoubles : (4 * x) % One = 0}

\* a double as a price of calculateTickBounds
asPrice(x) == <<(x * 100) \div One, 100>>

\* the token addresses of a market
MarketTokens == {[i \in 1..AddrLen |-> c] : c \in HexDigits}

\* the ticks a pool can be at: the prices 0.5, 1 and 2 of token0 in token1
PoolStateTicks == {-6932, 0, 6931}

\* getTickSpacing(fee, config), config.chain.id being chainId
getTickSpacing(fee, chainId) ==
  IF chainId = 100
    THEN [threw |-> FALSE, tickSpacing |-> 60]
    ELSE CASE fee = 100   -> [threw |-> FALSE, tickSpacing |-> 1]
           [] fee = 500   -> [threw |-> FALSE, tickSpacing |-> 10]
           [] fee = 3000  -> [threw |-> FALSE, tickSpacing |-> 60]
           [] fee = 10000 -> [threw |-> FALSE, tickSpacing |-> 200]
           [] OTHER       -> Threw

\* the prices that calculateTickBounds gives to priceToTick
priceToTickArguments(minPrice, maxPrice, isToken0Outcome) ==
  IF isToken0Outcome
    THEN {minPrice, maxPrice}
    ELSE {reciprocal(maxPrice), reciprocal(minPrice)}

\* Math.floor(Math.log(initialPriceToken1PerToken0) / Math.log(1.0001)) for
\* midPrice or 1 / midPrice, tabulated in IEEE double arithmetic
expectedTick(midPrice, isToken0Outcome) ==
  CASE midPrice = One \div 8       -> IF isToken0Outcome THEN -20796 ELSE 20795
    [] midPrice = 2 * (One \div 8) -> IF isToken0Outcome THEN -13864 ELSE 13863
    [] midPrice = 3 * (One \div 8) -> IF isToken0Outcome THEN -9809 ELSE 9808
    [] midPrice = 4 * (One \div 8) -> IF isToken0Outcome THEN -6932 ELSE 6931
    [] midPrice = 5 * (One \div 8) -> IF isToken0Outcome THEN -4701 ELSE 4700
    [] midPrice = 6 * (One \div 8) -> IF isToken0Outcome THEN -2877 ELSE 2876
    [] midPrice = 7 * (One \div 8) -> IF isToken0Outcome THEN -1336 ELSE 1335

\* TRUE when calculateTokenAmountsForLiquidity throws: on its own validation
\* of the ticks, or, with the price within range, on the invariants of the
\* SDK's Position
tokenAmountsThrow(currentTick, tickLower, tickUpper, feeTier) ==
  \/ ticksRejected(tickLower, tickUpper)
  \/ /\ tickLower <= currentTick /\ currentTick < tickUpper
     /\ ~positionTicksOk(tickLower, tickUpper, feeAmountOf(feeTier))

\* poolState.tick > b.tickLower && poolState.tick < b.tickUpper
containsTick(tick, b) == tick > b.tickLower /\ tick < b.tickUpper

\* a throw of the analysis, with the prices priceToTick had been given
analysisThrew(args) == [threw |-> TRUE, priceToTickArgs |-> args]

\* the pool does not exist yet
analyzeNewPool(wrappedToken, collateralToken, poolRange, feeTier, chainId) ==
  LET sorted          == sortTokens(wrappedToken, collateralToken)
      isToken0Outcome == sorted.token0 = wrappedToken
      spacing         == getTickSpacing(feeTier, chainId)
      minPrice        == asPrice(poolRange.minPrice)
      maxPrice        == asPrice(poolRange.maxPrice)
      bounds          == calculateTickBounds(minPrice, maxPrice, spacing.tickSpacing, isToken0Outcome)
      args            == priceToTickArguments(minPrice, maxPrice, isToken0Outcome)
      minted          == sortTokens(wrappedToken, collateralToken)
  IN  IF spacing.threw THEN analysisThrew({})
      ELSE IF bounds.threw THEN analysisThrew(args)
      ELSE IF tokenAmountsThrow(expectedTick(poolRange.initialPrice, isToken0Outcome),
                                bounds.tickLower, bounds.tickUpper, feeTier)
        THEN analysisThrew(args)
      ELSE [threw           |-> FALSE,
            exists          |-> FALSE,
            tickLower       |-> bounds.tickLower,
            tickUpper       |-> bounds.tickUpper,
            isToken0Outcome |-> isToken0Outcome,
            token0          |-> minted.token0,
            token1          |-> minted.token1,
            priceToTickArgs |-> args]

\* the pool exists, at tick poolTick with spacing poolTickSpacing
analyzeExistingPool(wrappedToken, collateralToken, poolRange, feeTier, poolTick, tickSpacing) ==
  LET sorted            == sortTokens(wrappedToken, collateralToken)
      isToken0Outcome   == sorted.token0 = wrappedToken
      minPrice          == asPrice(poolRange.minPrice)
      maxPrice          == asPrice(poolRange.maxPrice)
      boundsOutcomeAsT0 == calculateTickBounds(minPrice, maxPrice, tickSpacing, TRUE)
      boundsOutcomeAsT1 == calculateTickBounds(minPrice, maxPrice, tickSpacing, FALSE)
      argsAsT0          == priceToTickArguments(minPrice, maxPrice, TRUE)
      args              == argsAsT0 \cup priceToTickArguments(minPrice, maxPrice, FALSE)
      default           == IF isToken0Outcome THEN boundsOutcomeAsT0 ELSE boundsOutcomeAsT1
      alt               == IF isToken0Outcome THEN boundsOutcomeAsT1 ELSE boundsOutcomeAsT0
      switched          == ~containsTick(poolTick, default) /\ containsTick(poolTick, alt)
      bounds            == IF switched THEN alt ELSE default
      chosenIsToken0Outcome == IF switched THEN ~isToken0Outcome ELSE isToken0Outcome
      minted            == sortTokens(wrappedToken, collateralToken)
  IN  IF boundsOutcomeAsT0.threw THEN analysisThrew(argsAsT0)
      ELSE IF boundsOutcomeAsT1.threw THEN analysisThrew(args)
      ELSE IF tokenAmountsThrow(poolTick, bounds.tickLower, bounds.tickUpper, feeTier)
        THEN analysisThrew(args)
      ELSE [threw           |-> FALSE,
            exists          |-> TRUE,
            tickLower       |-> bounds.tickLower,
            tickUpper       |-> bounds.tickUpper,
            isToken0Outcome |-> chosenIsToken0Outcome,
            token0          |-> minted.token0,
            token1          |-> minted.token1,
            priceToTickArgs |-> args]

\* one turn of the loop over the pools: i = 1 is the DOWN pool, i = 2 the UP
\* pool
analyzePool(priceMin, priceMax, i, wrappedToken, collateralToken, feeTier, chainId, exists, poolTick, tickSpacing) ==
  LET poolRanges == calculateComplementaryRanges(priceMin, priceMax)
  IN  IF poolRanges.threw THEN analysisThrew({})
      ELSE IF exists
        THEN analyzeExistingPool(wrappedToken, collateralToken, poolRanges.ranges[i],
                                 feeTier, poolTick, tickSpacing)
        ELSE analyzeNewPool(wrappedToken, collateralToken, poolRanges.ranges[i],
                            feeTier, chainId)

AnalyzePool ==
  /\ pc = "idle"
  /\ \E priceMin \in AnalysisPrices, priceMax \in AnalysisPrices, i \in {1, 2},
        wrappedToken \in MarketTokens, collateralToken \in MarketTokens,
        feeTier \in {100, 3000, 250}, chainId \in {100, 8453}, exists \in BOOLEAN,
        poolTick \in PoolStateTicks, tickSpacing \in {1, 60} :
       /\ toLowerCase(wrappedToken) # toLowerCase(collateralToken)
       /\ exists \/ (poolTick = 0 /\ tickSpacing = 1)
       /\ call' = [fn              |-> "analyzePool",
                   priceMin        |-> priceMin,
                   priceMax        |-> priceMax,
                   i               |-> i,
                   wrappedToken    |-> wrappedToken,
                   collateralToken |-> collateralToken,
                   feeTier         |-> feeTier,
                   chainId         |-> chainId,
                   exists          |-> exists,
                   poolTick        |-> poolTick,
                   tickSpacing     |-> tickSpacing]
       /\ ret' = analyzePool(priceMin, priceMax, i, wrappedToken, collateralToken,
                             feeTier, chainId, exists, poolTick, tickSpacing)
  /\ pc' = "done"

NextAnalysis ==
  \/ AnalyzePool
  \/ Return

SpecAnalysis == Init /\ [][NextAnalysis]_vars

IsAnalysis == pc = "done" /\ call.fn = "analyzePool"

(***************************************************************************)
(* Claims about the analysis of a pool, checked under SpecAnalysis         *)
(***************************************************************************)
\* C18: prices are validated before tick conversion.  For every user range
\* that calculateComplementaryRanges accepts, every price given to
\* priceToTick through calculateTickBounds is finite and strictly positive.
C18_PricesPreValidated ==
  IsAnalysis =>
     \A price \in ret.priceToTickArgs : price[1] > 0 /\ price[2] > 0

\* C19: orientation flag consistency.  For every analysed pool, new or
\* existing and whatever its current tick, the isToken0Outcome flag of the
\* analysis equals (token0 = outcome token) for the sorted pair that is
\* approved and minted.
C19_OrientationFlag ==
  (IsAnalysis /\ Returned) =>
     (ret.isToken0Outcome <=> (ret.token0 = call.wrappedToken))

(***************************************************************************)
(* SlippageGuard: calculateMinAmounts (utils/dex.ts).  A tolerance is      *)
(* written in units of 0.00001: 1000 is the decimal 0.01.                  *)
(***************************************************************************)

\* the tolerance 1
ToleranceOne == 10 ^ 5

\* the tolerances of the model: -0.01, 0, 0.00005, 0.005, 0.01, 0.05, 0.181,
\* 0.5, 0.9999, 1 and 1.5
Tolerances == {-1000, 0, 5, 500, 1000, 5000, 18100, 50000, 99990, ToleranceOne, 150000}

\* the desired amounts of the model
DesiredAmounts == {0, 1, 1000, 10000, 20000}

\* Math.floor((1 - slippageTolerance) * 10000), tabulated in IEEE double
\* arithmetic for the tolerances of the model
slippageFactor(slippageTolerance) ==
  CASE slippageTolerance = -1000 -> 10100
    [] slippageTolerance = 0 -> 10000
    [] slippageTolerance = 5 -> 9999
    [] slippageTolerance = 500 -> 9950
    [] slippageTolerance = 1000 -> 9900
    [] slippageTolerance = 5000 -> 9500
    [] slippageTolerance = 18100 -> 8189
    [] slippageTolerance = 50000 -> 5000
    [] slippageTolerance = 99990 -> 0
    [] slippageTolerance = 100000 -> 0
    [] slippageTolerance = 150000 -> -5000

\* a / b on bigint, which truncates toward zero
bigintDiv(a, b) == IF a >= 0 THEN a \div b ELSE -((-a) \div b)

calculateMinAmounts(amount0Desired, amount1Desired, slippageTolerance) ==
  LET factor == slippageFactor(slippageTolerance)
  IN  [threw      |-> FALSE,
       amount0Min |-> bigintDiv(amount0Desired * factor, 10000),
       amount1Min |-> bigintDiv(amount1Desired * factor, 10000)]

CallMinAmounts ==
  /\ pc = "idle"
  /\ \E amount0Desired \in DesiredAmounts, amount1Desired \in DesiredAmounts,
        slippageTolerance \in Tolerances :
       /\ call' = [fn                |-> "calculateMinAmounts",
                   amount0Desired    |-> amount0Desired,
                   amount1Desired    |-> amount1Desired,
                   slippageTolerance |-> slippageTolerance]
       /\ ret' = calculateMinAmounts(amount0Desired, amount1Desired, slippageTolerance)
  /\ pc' = "done"

NextSlippage ==
  \/ CallMinAmounts
  \/ Return

SpecSlippage == Init /\ [][NextSlippage]_vars

IsMinAmounts == pc = "done" /\ call.fn = "calculateMinAmounts"

\* 0 <= tolerance < 1
ToleranceInRange(t) == 0 <= t /\ t < ToleranceOne

\* floor(amount * (1 - tolerance)), in exact arithmetic
ExactMin(amount, t) == (amount * (ToleranceOne - t)) \div ToleranceOne

(***************************************************************************)
(* Claims about calculateMinAmounts, checked under SpecSlippage            *)
(***************************************************************************)
\* C21: slippage formula.  For every amount >= 0 and every tolerance in
\* [0, 1), tolerances finer than one basis point included, each minimum is
\* floor(amount * (1 - tolerance)).
C21_SlippageFormula ==
  (IsMinAmounts /\ ToleranceInRange(call.slippageTolerance)) =>
     /\ Returned
     /\ ret.amount0Min = ExactMin(call.amount0Desired, call.slippageTolerance)
     /\ ret.amount1Min = ExactMin(call.amount1Desired, call.slippageTolerance)

\* C22: slippage tolerance validation.  calculateMinAmounts throws for every
\* tolerance outside [0, 1) and so never returns a negative minimum or a
\* minimum above the desired amount.
C22_ToleranceValidation ==
  IsMinAmounts =>
     /\ ~ToleranceInRange(call.slippageTolerance) => ret.threw
     /\ Returned =>
          /\ 0 <= ret.amount0Min /\ ret.amount0Min <= call.amount0Desired
          /\ 0 <= ret.amount1Min /\ ret.amount1Min <= call.amount1Desired

(***************************************************************************)
(* Fee tiers: getTickSpacing and the fee switch of the two allocators      *)
(***************************************************************************)

\* config.chain.id: Gnosis (100), Base (8453) and Ethereum (1)
ChainIds == {100, 8453, 1}

\* the fee tiers getTickSpacing is called with: the four known ones and an
\* unknown one
Fees == FeeTiers \cup {500}

CallGetTickSpacing ==
  /\ pc = "idle"
  /\ \E fee \in Fees, chainId \in ChainIds :
       /\ call' = [fn |-> "getTickSpacing", feeTier |-> fee, chainId |-> chainId]
       /\ ret' = getTickSpacing(fee, chainId)
  /\ pc' = "done"

NextFees ==
  \/ CallGetTickSpacing
  \/ CallTokenAmountsForLiquidity
  \/ CallLiquidityFromFixedTokens
  \/ Return

SpecFees == Init /\ [][NextFees]_vars

IsGetTickSpacing == pc = "done" /\ call.fn = "getTickSpacing"

KnownFeeTiers == {100, 500, 3000, 10000}

\* the spacing of the fee-tier table
TableSpacing(fee) ==
  CASE fee = 100   -> 1
    [] fee = 500   -> 10
    [] fee = 3000  -> 60
    [] fee = 10000 -> 200

(***************************************************************************)
(* Claims about fee tiers, checked under SpecFees                          *)
(***************************************************************************)
\* C23: fee-tier table.  getTickSpacing maps 100 to 1, 500 to 10, 3000 to 60
\* and 10000 to 200, for every chain configuration.
C23_FeeTierTable ==
  (IsGetTickSpacing /\ call.feeTier \in KnownFeeTiers) =>
     /\ Returned
     /\ ret.tickSpacing = TableSpacing(call.feeTier)

\* C24: an unknown fee tier is a configuration error.  getTickSpacing,
\* calculateTokenAmountsForLiquidity and calculateLiquidityFromFixedTokens
\* throw when the fee tier is not one of 100, 500, 3000, 10000.
C24_UnknownFeeTierThrows ==
  (pc = "done" /\ call.feeTier \notin KnownFeeTiers) => ret.threw

(***************************************************************************)
(* PriceTickConverter: tickToPrice and its round trip through priceToTick  *)
(***************************************************************************)

\* tickToPrice: the double Math.pow(1.0001, tick), written as its base
\* 10001 / 10000 and its exponent
tickToPrice(tick) == <<10001, 10000, tick>>

\* how many multiples of each spacing around 0 are converted
MaxMultiple == 15

\* the ticks that are converted: the multiples of each spacing around 0, and
\* for each spacing the two multiples nearest to MIN_TICK and MAX_TICK
RoundTripTicks ==
  UNION {{k * s : k \in (-MaxMultiple)..MaxMultiple}
           \cup {(MAX_TICK \div s) * s, -((MAX_TICK \div s) * s)} : s \in TickSpacings}

CallRoundTrip ==
  /\ pc = "idle"
  /\ \E tickSpacing \in TickSpacings, tick \in RoundTripTicks :
       /\ tick % tickSpacing = 0
       /\ MIN_TICK <= tick /\ tick <= MAX_TICK
       /\ call' = [fn |-> "roundTrip", tick |-> tick, tickSpacing |-> tickSpacing]
       /\ ret' = [threw |-> FALSE,
                  price |-> tickToPrice(tick),
                  tick  |-> priceToTick(tickToPrice(tick))]
  /\ pc' = "done"

NextRoundTrip ==
  \/ CallRoundTrip
  \/ Return

SpecRoundTrip == Init /\ [][NextRoundTrip]_vars

IsRoundTrip == pc = "done" /\ call.fn = "roundTrip"

Undefined == 0 - 1

\* x || y on an optional bigint: undefined and 0n are falsy
orElse(x, y) == IF x = Undefined \/ x = 0 THEN y ELSE x

\* Math.max(slippageTolerance, 0.05)
maxWithFloor(slippageTolerance) ==
  IF slippageTolerance > 5000 THEN slippageTolerance ELSE 5000

\* faulty variant of mintMinimum: the computed minimum is sent also for a
\* single-sided position
mintMinimum_always(isSingleSided, amountMin) == amountMin

\* isSingleSided ? 0n : amountMin
mintMinimum(isSingleSided, amountMin) == IF isSingleSided THEN 0 ELSE amountMin

addLiquidityToExistingPool(analysis, slippageTolerance, balance0, balance1) ==
  LET finalAmount0      == orElse(analysis.finalAmount0, analysis.amount0)
      finalAmount1      == orElse(analysis.finalAmount1, analysis.amount1)
      isNewPool         == ~analysis.exists
      effectiveSlippage == IF isNewPool THEN maxWithFloor(slippageTolerance)
                                        ELSE slippageTolerance
      mins              == calculateMinAmounts(finalAmount0, finalAmount1, effectiveSlippage)
      isSingleSided     == finalAmount0 = 0 \/ finalAmount1 = 0
  IN  IF balance0 < finalAmount0 \/ balance1 < finalAmount1
        THEN Threw
        ELSE [threw             |-> FALSE,
              effectiveSlippage |-> effectiveSlippage,
              amount0Desired    |-> finalAmount0,
              amount1Desired    |-> finalAmount1,
              amount0Min        |-> mintMinimum(isSingleSided, mins.amount0Min),
              amount1Min        |-> mintMinimum(isSingleSided, mins.amount1Min)]

\* the pool is created, then minted into as an existing pool
createAndAddLiquidity(analysis, slippageTolerance, balance0, balance1) ==
  LET finalAmount0 == orElse(analysis.finalAmount0, analysis.amount0)
      finalAmount1 == orElse(analysis.finalAmount1, analysis.amount1)
  IN  addLiquidityToExistingPool([analysis EXCEPT !.exists = TRUE,
                                                  !.amount0 = finalAmount0,
                                                  !.amount1 = finalAmount1],
                                 slippageTolerance, balance0, balance1)

\* the amounts of an analysis, and the optional final amounts
AnalysisAmounts == {0, 1000, 10000}

FinalAmounts == {Undefined, 0, 1000}

\* the slippage tolerances of a run: 0, 0.01, 0.05 and 0.5
RunTolerances == {0, 1000, 5000, 50000}

\* the balances of the two tokens before the mint
MintBalances == {0, 10000}

MintLiquidity ==
  /\ pc = "idle"
  /\ \E exists \in BOOLEAN, amount0 \in AnalysisAmounts, amount1 \in AnalysisAmounts,
        finalAmount0 \in FinalAmounts, finalAmount1 \in FinalAmounts,
        slippageTolerance \in RunTolerances,
        balance0 \in MintBalances, balance1 \in MintBalances :
       LET analysis == [exists       |-> exists,
                        amount0      |-> amount0,
                        amount1      |-> amount1,
                        finalAmount0 |-> finalAmount0,
                        finalAmount1 |-> finalAmount1]
       IN  /\ call' = [fn                |-> "mintLiquidity",
                       analysis          |-> analysis,
                       slippageTolerance |-> slippageTolerance,
                       balance0          |-> balance0,
                       balance1          |-> balance1]
           /\ ret' = IF ~analysis.exists
                       THEN createAndAddLiquidity(analysis, slippageTolerance, balance0, balance1)
                       ELSE addLiquidityToExistingPool(analysis, slippageTolerance, balance0, balance1)
  /\ pc' = "done"

NextMint ==
  \/ MintLiquidity
  \/ Return

SpecMint == Init /\ [][NextMint]_vars

IsMint == pc = "done" /\ call.fn = "mintLiquidity"

(***************************************************************************)
(* Claims about the mint parameters, checked under SpecMint                *)
(***************************************************************************)
\* C26: new-pool slippage floor.  When addLiquidity mints into a pool it has
\* just created, the minimums are derived from max(slippageTolerance, 0.05);
\* for an existing pool they are derived from slippageTolerance unchanged.
C26_NewPoolSlippageFloor ==
  (IsMint /\ Returned) =>
     ret.effectiveSlippage =
        IF call.analysis.exists \/ call.slippageTolerance > 5000
          THEN call.slippageTolerance
          ELSE 5000

\* C27: minimums sent to mint.  A token whose desired amount is zero has
\* minimum zero; if either desired amount is zero both minimums are zero;
\* otherwise the minimums are the results of calculateMinAmounts for the
\* desired amounts.
C27_MintMinimums ==
  (IsMint /\ Returned) =>
     LET mins == calculateMinAmounts(ret.amount0Desired, ret.amount1Desired,
                                     ret.effectiveSlippage)
     IN  /\ ret.amount0Desired = 0 => ret.amount0Min = 0
         /\ ret.amount1Desired = 0 => ret.amount1Min = 0
         /\ (ret.amount0Desired = 0 \/ ret.amount1Desired = 0)
              => (ret.amount0Min = 0 /\ ret.amount1Min = 0)
         /\ (ret.amount0Desired # 0 /\ ret.amount1Desired # 0)
              => (ret.amount0Min = mins.amount0Min /\ ret.amount1Min = mins.amount1Min)

\* a single-sided mint whose other token has a non-zero computed minimum,
\* sent as zero
C27_Witness ==
  /\ IsMint /\ Returned
  /\ ret.amount0Desired = 0 /\ ret.amount1Desired > 0
  /\ calculateMinAmounts(ret.amount0Desired, ret.amount1Desired,
                         ret.effectiveSlippage).amount1Min > 0
  /\ ret.amount1Min = 0

(***************************************************************************)
(* addLiquidity (src/addLiquidity.ts): one run, from the analysis of the   *)
(* two pools over the check of the collateral balance to the split of      *)
(* collateralAmount.  pc is the position in the run; ret is the state of   *)
(* the run.                                                                *)
(***************************************************************************)

\* the tick range of both pools in a run
RunTickLower == 0 - 60

RunTickUpper == 60

\* the collateral balances the account can have
Balances == 0..(2 * MaxAmount)

\* steps 2: both pools are analysed with Mode A and their collateralNeeded
\* is added up
AnalysePools ==
  /\ pc = "idle"
  /\ \E collateralAmount \in Amounts, tickDown \in PoolTicks, tickUp \in PoolTicks,
        outcomeIsToken0Down \in BOOLEAN, outcomeIsToken0Up \in BOOLEAN :
       LET down == calculateTokenAmountsForLiquidity(tickDown, RunTickLower, RunTickUpper,
                                                     collateralAmount, outcomeIsToken0Down, 3000)
           up   == calculateTokenAmountsForLiquidity(tickUp, RunTickLower, RunTickUpper,
                                                     collateralAmount, outcomeIsToken0Up, 3000)
       IN  /\ call' = [fn               |-> "addLiquidity",
                       collateralAmount |-> collateralAmount,
                       ticks            |-> <<tickDown, tickUp>>,
                       isToken0Outcome  |-> <<outcomeIsToken0Down, outcomeIsToken0Up>>]
           /\ IF down.threw \/ up.threw
                THEN /\ ret' = Threw
                     /\ pc' = "done"
                ELSE /\ ret' = [threw                 |-> FALSE,
                                totalCollateralNeeded |-> down.collateralNeeded + up.collateralNeeded,
                                checkPassed           |-> FALSE,
                                collateralBalance     |-> 0,
                                splitSubmitted        |-> FALSE,
                                splitAmount           |-> 0]
                     /\ pc' = "analysed"

\* step 3: the collateral balance is read and compared with
\* totalCollateralNeeded
CheckCollateralBalance ==
  /\ pc = "analysed"
  /\ \E collateralBalance \in Balances :
       IF collateralBalance < ret.totalCollateralNeeded
         THEN /\ ret' = Threw
              /\ pc' = "done"
         ELSE /\ ret' = [ret EXCEPT !.checkPassed = TRUE,
                                    !.collateralBalance = collateralBalance]
              /\ pc' = "checked"
  /\ UNCHANGED call

\* step 4: the split of collateralAmount is submitted
SplitPosition ==
  /\ pc = "checked"
  /\ ret' = [ret EXCEPT !.splitSubmitted = TRUE,
                        !.splitAmount = call.collateralAmount]
  /\ pc' = "done"
  /\ UNCHANGED call

NextRun ==
  \/ AnalysePools
  \/ CheckCollateralBalance
  \/ SplitPosition
  \/ Return

SpecRun == Init /\ [][NextRun]_vars

IsRun == call.fn = "addLiquidity"

(***************************************************************************)
(* Claims about a run of addLiquidity, checked under SpecRun               *)
(***************************************************************************)
\* C28: the split is covered by the balance check.  The split of
\* collateralAmount is submitted only after the collateral balance check has
\* passed, and the balance that passed the check is at least the
\* collateralAmount that is split.
C28_SplitCoveredByCheck ==
  (IsRun /\ Returned /\ ret.splitSubmitted) =>
     /\ ret.checkPassed
     /\ ret.collateralBalance >= ret.splitAmount

(***************************************************************************)
(* ContractClient.executeWithRetry (utils/contracts.ts).  pc is the        *)
(* position in the loop; ret counts the invocations of fn and the waits.   *)
(* The error of the k-th invocation is written k.                          *)
(***************************************************************************)
MaxRetries == 7

\* RetryConfig.MAX_DELAY and RetryConfig.BACKOFF_MULTIPLIER
RetryMaxDelay == 30 * 1000

BackoffMultiplier == 1 + 1

\* the base delays of the callers, in milliseconds
BaseDelays == {1000, 3000}

\* the delay before the next attempt
retryDelay(isRateLimit, baseDelay, i) ==
  IF isRateLimit
    THEN LET backoff == baseDelay * (BackoffMultiplier ^ i)
         IN  IF backoff < RetryMaxDelay THEN backoff ELSE RetryMaxDelay
    ELSE baseDelay

\* faulty variant of waitsBeforeRetry: waits after the last attempt too
waitsBeforeRetry_always(i, maxRetries) == TRUE

\* i < maxRetries - 1
waitsBeforeRetry(i, maxRetries) == i < maxRetries - 1

CallExecuteWithRetry ==
  /\ pc = "idle"
  /\ \E maxRetries \in 0..MaxRetries, baseDelay \in BaseDelays :
       call' = [fn |-> "executeWithRetry", maxRetries |-> maxRetries, baseDelay |-> baseDelay]
  /\ ret' = [threw       |-> FALSE,
             i           |-> 0,
             invocations |-> 0,
             waits       |-> 0,
             delay       |-> 0,
             lastError   |-> Undefined,
             succeeded   |-> FALSE,
             error       |-> Undefined]
  /\ pc' = "loop"

\* return await fn()
InvokeSucceeds ==
  /\ pc = "loop"
  /\ ret.i < call.maxRetries
  /\ ret' = [ret EXCEPT !.invocations = @ + 1, !.succeeded = TRUE]
  /\ pc' = "done"
  /\ UNCHANGED call

\* fn() rejects: the catch block
InvokeFails ==
  /\ pc = "loop"
  /\ ret.i < call.maxRetries
  /\ \E isRateLimit \in BOOLEAN :
       IF waitsBeforeRetry(ret.i, call.maxRetries)
         THEN /\ ret' = [ret EXCEPT !.invocations = @ + 1,
                                    !.lastError = ret.invocations + 1,
                                    !.delay = retryDelay(isRateLimit, call.baseDelay, ret.i)]
              /\ pc' = "waiting"
         ELSE /\ ret' = [ret EXCEPT !.invocations = @ + 1,
                                    !.lastError = ret.invocations + 1,
                                    !.i = @ + 1]
              /\ pc' = "loop"
  /\ UNCHANGED call

\* the timeout of the delay elapses
WaitElapses ==
  /\ pc = "waiting"
  /\ ret' = [ret EXCEPT !.waits = @ + 1, !.i = @ + 1]
  /\ pc' = "loop"
  /\ UNCHANGED call

\* throw lastError
ThrowLastError ==
  /\ pc = "loop"
  /\ ret.i >= call.maxRetries
  /\ ret' = [ret EXCEPT !.threw = TRUE, !.error = ret.lastError]
  /\ pc' = "done"
  /\ UNCHANGED call

NextRetry ==
  \/ CallExecuteWithRetry
  \/ InvokeSucceeds
  \/ InvokeFails
  \/ WaitElapses
  \/ ThrowLastError
  \/ Return

SpecRetry == Init /\ [][NextRetry]_vars

IsRetry == call.fn = "executeWithRetry"

\* the state part of C29
RetryBounded ==
  (IsRetry /\ call.maxRetries >= 1) =>
     /\ ret.invocations <= call.maxRetries
     /\ ret.waits <= ret.invocations
     /\ ret.succeeded => pc = "done" /\ ~ret.threw
     /\ ret.threw =>
          /\ ret.invocations = call.maxRetries
          /\ ret.error = call.maxRetries
          /\ ret.waits = call.maxRetries - 1

\* the step part of C29: after a success nothing is invoked and nothing waits
NoStepAfterSuccess ==
  (IsRetry /\ ret.succeeded) => (call' = NoCall /\ ret' = NoRet)

(***************************************************************************)
(* Claims about executeWithRetry, checked under SpecRetry                  *)
(***************************************************************************)
\* C29: bounded retry.  For maxRetries >= 1, fn is invoked at most
\* maxRetries times and never again after an invocation has succeeded; when
\* all maxRetries invocations fail, executeWithRetry rejects with the error
\* of the last one, without a wait after that last failure.
C29_BoundedRetry == [](RetryBounded) /\ [][NoStepAfterSuccess]_vars

\* all of two or more invocations have failed and the call has rejected
C29_Witness ==
  /\ IsRetry /\ pc = "done" /\ ret.threw
  /\ call.maxRetries >= 2
  /\ ret.invocations = call.maxRetries

(***************************************************************************)
(* The market-creation script: runs of main over the same seedRepos.json,  *)
(* with marketProgress.json and the chain carried from run to run.  In     *)
(* this specification ret is the world outside the process (the progress   *)
(* file and the confirmed transactions) and call is the frame of main.     *)
(***************************************************************************)
NumRepos == 3

\* the repoPaths of seedRepos.json, in file order
SeedRepos == [k \in 1..NumRepos |-> k]

NoProgressFile == [exists |-> FALSE, parses |-> FALSE, createdMarkets |-> <<>>]

\* the createdMarkets main starts from; lastProcessedIndex is written and
\* never read
loadProgress(file) == IF file.exists /\ file.parses THEN file.createdMarkets ELSE <<>>

\* JSON.stringify of the in-memory progress replaces the file
saveProgress(createdMarkets) == [exists |-> TRUE, parses |-> TRUE, createdMarkets |-> createdMarkets]

ElementsOf(seq) == {seq[k] : k \in 1..Len(seq)}

\* tokens.filter(([repoPath]) => !processedRepos.has(repoPath))
marketsToCreate(createdMarkets) ==
  LET processedRepos == ElementsOf(createdMarkets)
      keep(repoPath) == repoPath \notin processedRepos
  IN  SelectSeq(SeedRepos, keep)

InitMarkets ==
  /\ pc = "idle"
  /\ call = NoCall
  /\ ret = [threw |-> FALSE, progressFile |-> NoProgressFile, confirmed |-> {}]

\* main up to the loop; with nothing left to create it returns at once
StartRun ==
  /\ pc = "idle"
  /\ LET createdMarkets == loadProgress(ret.progressFile)
         todo == marketsToCreate(createdMarkets)
     IN  /\ Len(todo) > 0
         /\ call' = [fn              |-> "main",
                     createdMarkets  |-> createdMarkets,
                     marketsToCreate |-> todo,
                     i               |-> 1]
  /\ pc' = "loop"
  /\ UNCHANGED ret

\* the catch block of the loop body: break on a fatal message, else go on
\* with the next market
catchError(fatal) ==
  IF fatal
    THEN /\ pc' = "idle"
         /\ call' = NoCall
    ELSE /\ pc' = "loop"
         /\ call' = [call EXCEPT !.i = @ + 1]

\* executeWithRetry of createScalarMarket returns a transaction hash
SubmitCreate ==
  /\ pc = "loop"
  /\ call.i <= Len(call.marketsToCreate)
  /\ pc' = "sent"
  /\ UNCHANGED <<call, ret>>

\* executeWithRetry of createScalarMarket rejects
SubmitFails ==
  /\ pc = "loop"
  /\ call.i <= Len(call.marketsToCreate)
  /\ \E fatal \in BOOLEAN : catchError(fatal)
  /\ UNCHANGED ret

\* the receipt arrives with status success; the NewMarket event is found in
\* its logs or not
ReceiptArrives ==
  /\ pc = "sent"
  /\ LET repoPath == call.marketsToCreate[call.i]
     IN  \E found \in BOOLEAN :
           IF found
             THEN LET createdMarkets == Append(call.createdMarkets, repoPath)
                  IN  /\ call' = [call EXCEPT !.createdMarkets = createdMarkets, !.i = @ + 1]
                      /\ ret' = [ret EXCEPT !.confirmed = @ \cup {repoPath},
                                            !.progressFile = saveProgress(createdMarkets)]
             ELSE /\ call' = [call EXCEPT !.i = @ + 1]
                  /\ ret' = [ret EXCEPT !.confirmed = @ \cup {repoPath}]
  /\ pc' = "loop"

\* executeWithRetry of waitForTransaction rejects: the transaction reverted,
\* or the receipt could not be fetched while the transaction is mined or not
WaitFails ==
  /\ pc = "sent"
  /\ LET repoPath == call.marketsToCreate[call.i]
     IN  \E mined \in BOOLEAN :
           ret' = [ret EXCEPT !.confirmed = IF mined THEN @ \cup {repoPath} ELSE @]
  /\ \E fatal \in BOOLEAN : catchError(fatal)

\* the process is stopped inside fs.writeFileSync of saveProgress, after the
\* file was truncated and before the text was written
StoppedInSave ==
  /\ pc = "sent"
  /\ LET repoPath == call.marketsToCreate[call.i]
     IN  ret' = [ret EXCEPT !.confirmed = @ \cup {repoPath},
                            !.progressFile = [exists |-> TRUE, parses |-> FALSE, createdMarkets |-> <<>>]]
  /\ pc' = "idle"
  /\ call' = NoCall

\* the loop is over: the final reports are written and main returns
EndRun ==
  /\ pc = "loop"
  /\ call.i > Len(call.marketsToCreate)
  /\ pc' = "idle"
  /\ call' = NoCall
  /\ UNCHANGED ret

NextMarkets ==
  \/ StartRun
  \/ SubmitCreate
  \/ SubmitFails
  \/ ReceiptArrives
  \/ WaitFails
  \/ StoppedInSave
  \/ EndRun

SpecMarkets == InitMarkets /\ [][NextMarkets]_vars

\* what marketProgress.json records, as a later run will read it
Recorded == ElementsOf(loadProgress(ret.progressFile))

\* between two repositories, every confirmed creation is in the file
RecordedBeforeNext ==
  pc \in {"idle", "loop"} => ret.confirmed \subseteq Recorded

\* a step that submits createScalarMarket submits it for a repoPath with no
\* confirmed creation
SubmitsOnlyUnconfirmed ==
  (pc = "loop" /\ pc' = "sent") => call.marketsToCreate[call.i] \notin ret.confirmed

(***************************************************************************)
(* Claims about the market-creation script, checked under SpecMarkets      *)
(***************************************************************************)
\* C30: at most once per repository across runs.  A createScalarMarket
\* transaction that was confirmed for a repoPath is recorded in
\* marketProgress.json before the next repository is processed, and no later
\* submission of createScalarMarket is for that repoPath.
C30_AtMostOncePerRepo == [](RecordedBeforeNext) /\ [][SubmitsOnlyUnconfirmed]_vars

====
